---- MODULE Spec2Model ----
(***************************************************************************)
(* State machine of SceneManager (CS330 final project): the texture        *)
(* registry (m_textureIDs / m_loadedTextures), the material registry       *)
(* (m_objectMaterials) and the per-draw shader setters, together with the  *)
(* part of the OpenGL state they act on (texture names, texture units,     *)
(* uniforms of the active program).                                        *)
(*                                                                         *)
(* Floating point literals are written in hundredths (0.3f is 30); the     *)
(* light parameters and the entries of matrices are in thousandths.        *)
(* Every uniform value is a tuple of integers (a matrix is a tuple of      *)
(* rows); <<>> is "never written".                                         *)
(***************************************************************************)
EXTENDS Integers, Sequences, FiniteSets, TLC

VARIABLES
    m_pShaderManager,   \* "NULL" or "shader"
    m_textureIDs,       \* TEXTURE_INFO m_textureIDs[16]
    m_loadedTextures,   \* int m_loadedTextures
    m_objectMaterials,  \* std::vector<OBJECT_MATERIAL>
    m_basicMeshes,      \* the meshes loaded into the ShapeMeshes object
    uniforms,           \* uniforms of the active shader program
    glNextName,         \* next texture name glGenTextures hands out
    glActiveTexture,    \* selected texture unit (glActiveTexture)
    glBound,            \* GL_TEXTURE_2D binding of every texture unit
    glImages,           \* texture names that hold an uploaded, mipmapped image
    heapImages,         \* stbi image buffers not yet freed
    oobWrites,          \* indices written past the end of m_textureIDs
    fault,              \* the process died (invalid memory access)
    succeeded,          \* tags for which CreateGLTexture returned true, in order
    last                \* the last call: name, tag, results, uniform writes, log

vars == << m_pShaderManager, m_textureIDs, m_loadedTextures, m_objectMaterials,
           m_basicMeshes, uniforms, glNextName, glActiveTexture, glBound, glImages,
           heapImages, oobWrites, fault, succeeded, last >>

----------------------------------------------------------------------------
(* Program constants and bounds *)

\* "There are up to 16 slots" / "a total of 16 available slots"
MaxTextures == 16

\* texture names the model lets glGenTextures hand out (specification Spec)
MaxNames == 3
\* calls of DefineObjectMaterials the model follows
MaxDefine == 2
\* calls with an unsupported channel count followed in the capacity specification SpecCap
MaxCapLeaks == 1
\* length of the material registries the lookup specification SpecLookup starts from
MaxMats == 3

\* texture names the model lets glGenTextures hand out in the scene specification SpecScene
MaxSceneNames == 6

\* textures registered in the shader specification SpecShader
MaxShaderTextures == 1

\* tags passed to the texture functions (exact, case-sensitive strings)
Tags == {"table", "Table", "flag"}
\* tags passed to the material functions
MatTags == {"wood", "plastic", "glass"}

\* pairwise distinct tags, one per registration of SpecCap
CapTags == << "t01", "t02", "t03", "t04", "t05", "t06", "t07", "t08", "t09", "t10",
              "t11", "t12", "t13", "t14", "t15", "t16", "t17", "t18", "t19", "t20" >>

\* result of stbi_load: 0 is a NULL image, otherwise the channel count
DecodeOutcomes == 0 .. 4

\* stbi_load on the .jpg files of the scene: no image, greyscale, RGB
JpegOutcomes == {0, 1, 3}

\* what a write past the end of m_textureIDs can do
OverflowOutcomes == {"fault", "corrupt"}
\* what a member call through the NULL shader manager can do
NullCallOutcomes == {"fault", "returns"}

\* SetupSceneLights, lines 429-433: the directional light
DirectionalLightWrites ==
    << [name |-> "directionalLight.direction", value |-> <<-300, -1000, -500>>],
       [name |-> "directionalLight.ambient", value |-> <<200, 200, 200>>],
       [name |-> "directionalLight.diffuse", value |-> <<800, 800, 800>>],
       [name |-> "directionalLight.specular", value |-> <<1000, 1000, 1000>>],
       [name |-> "directionalLight.bActive", value |-> <<1>>] >>

\* the spot light without its last write (spotLight.bActive)
SpotLightWrites_NoActive ==
    << [name |-> "spotLight.position", value |-> <<0, 10000, 5000>>],
       [name |-> "spotLight.direction", value |-> <<0, -1000, 0>>],
       [name |-> "spotLight.ambient", value |-> <<100, 100, 100>>],
       [name |-> "spotLight.diffuse", value |-> <<1000, 900, 800>>],
       [name |-> "spotLight.specular", value |-> <<1000, 1000, 1000>>],
       [name |-> "spotLight.cutOff", value |-> <<985>>],
       [name |-> "spotLight.outerCutOff", value |-> <<866>>],
       [name |-> "spotLight.constant", value |-> <<1000>>],
       [name |-> "spotLight.linear", value |-> <<90>>],
       [name |-> "spotLight.quadratic", value |-> <<32>>] >>

\* SetupSceneLights, lines 436-446: the spot light (cutOff and outerCutOff
\* are the cosines of 10 and 30 degrees)
SpotLightWrites ==
    << [name |-> "spotLight.position", value |-> <<0, 10000, 5000>>],
       [name |-> "spotLight.direction", value |-> <<0, -1000, 0>>],
       [name |-> "spotLight.ambient", value |-> <<100, 100, 100>>],
       [name |-> "spotLight.diffuse", value |-> <<1000, 900, 800>>],
       [name |-> "spotLight.specular", value |-> <<1000, 1000, 1000>>],
       [name |-> "spotLight.cutOff", value |-> <<985>>],
       [name |-> "spotLight.outerCutOff", value |-> <<866>>],
       [name |-> "spotLight.constant", value |-> <<1000>>],
       [name |-> "spotLight.linear", value |-> <<90>>],
       [name |-> "spotLight.quadratic", value |-> <<32>>],
       [name |-> "spotLight.bActive", value |-> <<1>>] >>

\* SetupSceneLights, lines 449-486: the four point lights
PointLightWrites ==
    << [name |-> "pointLights[0].position", value |-> <<-11000, 8000, 6000>>],
       [name |-> "pointLights[0].ambient", value |-> <<50, 50, 50>>],
       [name |-> "pointLights[0].diffuse", value |-> <<800, 800, 800>>],
       [name |-> "pointLights[0].specular", value |-> <<1000, 1000, 1000>>],
       [name |-> "pointLights[0].constant", value |-> <<1000>>],
       [name |-> "pointLights[0].linear", value |-> <<140>>],
       [name |-> "pointLights[0].quadratic", value |-> <<70>>],
       [name |-> "pointLights[0].bActive", value |-> <<1>>],
       [name |-> "pointLights[1].position", value |-> <<-6000, 8000, 6500>>],
       [name |-> "pointLights[1].ambient", value |-> <<50, 50, 50>>],
       [name |-> "pointLights[1].diffuse", value |-> <<800, 800, 800>>],
       [name |-> "pointLights[1].specular", value |-> <<1000, 1000, 1000>>],
       [name |-> "pointLights[1].constant", value |-> <<1000>>],
       [name |-> "pointLights[1].linear", value |-> <<140>>],
       [name |-> "pointLights[1].quadratic", value |-> <<70>>],
       [name |-> "pointLights[1].bActive", value |-> <<1>>],
       [name |-> "pointLights[2].position", value |-> <<3000, 8000, 4000>>],
       [name |-> "pointLights[2].ambient", value |-> <<50, 50, 50>>],
       [name |-> "pointLights[2].diffuse", value |-> <<800, 800, 800>>],
       [name |-> "pointLights[2].specular", value |-> <<1000, 1000, 1000>>],
       [name |-> "pointLights[2].constant", value |-> <<1000>>],
       [name |-> "pointLights[2].linear", value |-> <<140>>],
       [name |-> "pointLights[2].quadratic", value |-> <<70>>],
       [name |-> "pointLights[2].bActive", value |-> <<1>>],
       [name |-> "pointLights[3].position", value |-> <<9000, 8000, 6000>>],
       [name |-> "pointLights[3].ambient", value |-> <<50, 50, 50>>],
       [name |-> "pointLights[3].diffuse", value |-> <<800, 800, 800>>],
       [name |-> "pointLights[3].specular", value |-> <<1000, 1000, 1000>>],
       [name |-> "pointLights[3].constant", value |-> <<1000>>],
       [name |-> "pointLights[3].linear", value |-> <<140>>],
       [name |-> "pointLights[3].quadratic", value |-> <<70>>],
       [name |-> "pointLights[3].bActive", value |-> <<1>>] >>

\* the uniform writes of SetupSceneLights, in order
SceneLightWrites ==
    << [name |-> "bUseLighting", value |-> <<1>>],
       [name |-> "ambientLight", value |-> <<200, 200, 200>>] >>
    \o DirectionalLightWrites \o SpotLightWrites \o PointLightWrites

\* the uniforms the source writes
UniformNames ==
    {"model", "objectColor", "objectTexture", "bUseTexture", "UVscale",
     "material.diffuseColor", "material.specularColor", "material.shininess"}
    \cup {SceneLightWrites[k].name : k \in DOMAIN SceneLightWrites}

----------------------------------------------------------------------------
(* Data *)

\* a default-constructed TEXTURE_INFO (declared in SceneManager.h)
EmptyTextureInfo == [tag |-> "", ID |-> 0]

\* m_loadedTextures of a new SceneManager; the constructor does not assign it,
\* the value is the one SceneManager.h gives the member
InitialLoadedTextures == 0

Material(tag, d, s, sh) ==
    [tag |-> tag, diffuseColor |-> d, specularColor |-> s, shininess |-> sh]

\* the two materials of DefineObjectMaterials
woodMaterial == Material("wood", <<30, 20, 10>>, <<10, 10, 10>>, 30)
plasticMaterial == Material("plastic", <<30, 30, 40>>, <<5, 5, 5>>, 2)

\* contents an uninitialised local OBJECT_MATERIAL can have (its tag is a
\* default-constructed, empty std::string; the numeric fields are indeterminate)
UninitMaterials ==
    { Material("", <<0, 0, 0>>, <<0, 0, 0>>, 0),
      Material("", <<77, 77, 77>>, <<88, 88, 88>>, 99) }

\* op, tag: the call and its tag argument; img: what stbi_load returned;
\* given, out: the material argument before and after; ret, ok: the int or
\* bool result; writes: the uniforms written, in order; log: lines on std::cout;
\* args: the numeric arguments; drawn: the uniforms a draw call is issued
\* with; events: the calls made inside the call, in order
NoCall == [op |-> "none", tag |-> "", img |-> 0, ret |-> 0, ok |-> FALSE,
           writes |-> <<>>, log |-> <<>>,
           args |-> <<>>, drawn |-> <<>>, events |-> <<>>,
           given |-> Material("", <<0, 0, 0>>, <<0, 0, 0>>, 0),
           out |-> Material("", <<0, 0, 0>>, <<0, 0, 0>>, 0)]

Call(op, tag) == [NoCall EXCEPT !.op = op, !.tag = tag]

\* the program state as one record, so that handlers compose
State ==
    [ m_pShaderManager |-> m_pShaderManager, m_textureIDs |-> m_textureIDs,
      m_loadedTextures |-> m_loadedTextures, m_objectMaterials |-> m_objectMaterials,
      m_basicMeshes |-> m_basicMeshes,
      uniforms |-> uniforms, glNextName |-> glNextName,
      glActiveTexture |-> glActiveTexture, glBound |-> glBound,
      glImages |-> glImages,
      heapImages |-> heapImages, oobWrites |-> oobWrites, fault |-> fault,
      succeeded |-> succeeded, last |-> last ]

\* s is evaluated once
Commit(s) ==
    \E t \in {s} :
        /\ m_pShaderManager' = t.m_pShaderManager
        /\ m_textureIDs' = t.m_textureIDs
        /\ m_loadedTextures' = t.m_loadedTextures
        /\ m_objectMaterials' = t.m_objectMaterials
        /\ m_basicMeshes' = t.m_basicMeshes
        /\ uniforms' = t.uniforms
        /\ glNextName' = t.glNextName
        /\ glActiveTexture' = t.glActiveTexture
        /\ glBound' = t.glBound
        /\ glImages' = t.glImages
        /\ heapImages' = t.heapImages
        /\ oobWrites' = t.oobWrites
        /\ fault' = t.fault
        /\ succeeded' = t.succeeded
        /\ last' = t.last

\* the process is alive and m_loadedTextures still indexes inside the array
Running == ~fault /\ m_loadedTextures <= MaxTextures

----------------------------------------------------------------------------
(* ShaderManager: set*Value(name, value) writes one uniform *)

SetUniform(s, name, value) ==
    [s EXCEPT !.uniforms[name] = value,
              !.last.writes = Append(s.last.writes, name)]

Log(s, line) == [s EXCEPT !.last.log = Append(s.last.log, line)]

----------------------------------------------------------------------------
(* Calls made inside a call *)

\* what a call that has returned in state t leaves in the record of its caller
Event(t) ==
    [call |-> t.last.op, arg |-> t.last.tag, img |-> t.last.img, ok |-> t.last.ok,
     loaded |-> t.m_loadedTextures, drawn |-> t.last.drawn]

\* the caller, in state s, makes a call that ends in state t: the caller goes
\* on in t with the call, its uniform writes, its log lines and the calls it
\* made added to its own; a dead process makes no call
Nest(s, t) ==
    IF s.fault
    THEN s
    ELSE [t EXCEPT !.last = [s.last EXCEPT
                                !.writes = @ \o t.last.writes,
                                !.log = @ \o t.last.log,
                                !.events = Append(@, Event(t)) \o t.last.events]]

----------------------------------------------------------------------------
(* Texture registry *)

\* RegisterTexture without the m_loadedTextures++ of line 115
RegisterTexture_NoCount(s, textureID, tag, ub) ==
    [s EXCEPT !.m_textureIDs[s.m_loadedTextures] = [tag |-> tag, ID |-> textureID],
              !.succeeded = Append(@, tag),
              !.last.ok = TRUE]

\* RegisterTexture storing every texture at index 0 instead of m_loadedTextures
RegisterTexture_FirstSlot(s, textureID, tag, ub) ==
    [s EXCEPT !.m_textureIDs[0] = [tag |-> tag, ID |-> textureID],
              !.m_loadedTextures = @ + 1,
              !.succeeded = Append(@, tag),
              !.last.ok = TRUE]

\* CreateGLTexture, lines 112-117: store the handle and the tag at index
\* m_loadedTextures and count the texture.  Nothing compares the index with
\* the array size, so the 17th registration writes past the end of the array.
RegisterTexture(s, textureID, tag, ub) ==
    IF s.m_loadedTextures < MaxTextures
    THEN [s EXCEPT !.m_textureIDs[s.m_loadedTextures] = [tag |-> tag, ID |-> textureID],
                   !.m_loadedTextures = @ + 1,
                   !.succeeded = Append(@, tag),
                   !.last.ok = TRUE]
    ELSE IF ub = "fault"
    THEN [s EXCEPT !.fault = TRUE]
    ELSE [s EXCEPT !.oobWrites = @ \cup {s.m_loadedTextures},
                   !.m_loadedTextures = @ + 1,
                   !.succeeded = Append(@, tag),
                   !.last.ok = TRUE]

\* CreateGLTexture without the else branch of lines 99-103: an image of any
\* channel count is registered
CreateGLTexture_AnyChannels(s, tag, img, ub) ==
    LET s0 == [s EXCEPT !.last = [Call("CreateGLTexture", tag) EXCEPT !.img = img]]
    IN  IF img = 0
        THEN Log(s0, "Could not load image")
        ELSE LET textureID == s.glNextName
                 s1 == [Log(s0, "Successfully loaded image") EXCEPT
                           !.glNextName = @ + 1]
             IN  RegisterTexture(s1, textureID, tag, ub)

\* bool CreateGLTexture(filename, tag); img is what stbi_load gives for filename.
\* Of the texture object only the upload is kept (wrap and filter parameters
\* are the same on every path).
CreateGLTexture(s, tag, img, ub) ==
    LET s0 == [s EXCEPT !.last = [Call("CreateGLTexture", tag) EXCEPT !.img = img]]
    IN  IF img = 0
        THEN Log(s0, "Could not load image")
        ELSE LET textureID == s.glNextName
                 s1 == [Log(s0, "Successfully loaded image") EXCEPT
                           !.heapImages = @ + 1,
                           !.glNextName = @ + 1,
                           !.glBound[s.glActiveTexture] = textureID]
             IN  IF img = 3 \/ img = 4
                 THEN RegisterTexture(
                          [s1 EXCEPT !.glImages = @ \cup {textureID},
                                     !.heapImages = @ - 1,
                                     !.glBound[s.glActiveTexture] = 0],
                          textureID, tag, ub)
                 ELSE Log(s1, "Not implemented to handle image")

\* the loop of BindGLTextures without its glActiveTexture call: every texture
\* is bound to the unit that happens to be selected
RECURSIVE BindFrom_OneUnit(_, _)
BindFrom_OneUnit(s, i) ==
    IF i < s.m_loadedTextures
    THEN BindFrom_OneUnit([s EXCEPT !.glBound[s.glActiveTexture] = s.m_textureIDs[i].ID],
                          i + 1)
    ELSE s

\* the loop of BindGLTextures from index i on
RECURSIVE BindFrom(_, _)
BindFrom(s, i) ==
    IF i < s.m_loadedTextures
    THEN BindFrom([s EXCEPT !.glActiveTexture = i,
                            !.glBound[i] = s.m_textureIDs[i].ID], i + 1)
    ELSE s

BindGLTextures(s) == BindFrom([s EXCEPT !.last = Call("BindGLTextures", "")], 0)

\* the loop of DestroyGLTextures from index i on: glGenTextures(1, &ID)
RECURSIVE DestroyFrom(_, _)
DestroyFrom(s, i) ==
    IF i < s.m_loadedTextures
    THEN DestroyFrom([s EXCEPT !.m_textureIDs[i].ID = s.glNextName,
                               !.glNextName = @ + 1], i + 1)
    ELSE s

\* a teardown that also forgets the registrations (m_loadedTextures = 0)
DestroyGLTextures_Reset(s) ==
    [DestroyFrom([s EXCEPT !.last = Call("DestroyGLTextures", "")], 0)
        EXCEPT !.m_loadedTextures = 0]

DestroyGLTextures(s) == DestroyFrom([s EXCEPT !.last = Call("DestroyGLTextures", "")], 0)

\* the lookup loop with its result initialised to 0 instead of -1
RECURSIVE FindTextureIndex_MissZero(_, _, _, _)
FindTextureIndex_MissZero(ids, loaded, tag, index) ==
    IF index < loaded
    THEN IF ids[index].tag = tag
         THEN index
         ELSE FindTextureIndex_MissZero(ids, loaded, tag, index + 1)
    ELSE 0

\* the lookup loop run from the last registered index down to 0, so that the
\* last of several entries with the tag is the one found
RECURSIVE FindTextureIndex_LastMatch(_, _, _, _)
FindTextureIndex_LastMatch(ids, loaded, tag, index) ==
    IF index < loaded
    THEN IF ids[loaded - 1 - index].tag = tag
         THEN loaded - 1 - index
         ELSE FindTextureIndex_LastMatch(ids, loaded, tag, index + 1)
    ELSE -1

\* the while loop shared by FindTextureID and FindTextureSlot: the first
\* index in index .. loaded-1 whose tag compares equal, or -1
RECURSIVE FindTextureIndex(_, _, _, _)
FindTextureIndex(ids, loaded, tag, index) ==
    IF index < loaded
    THEN IF ids[index].tag = tag
         THEN index
         ELSE FindTextureIndex(ids, loaded, tag, index + 1)
    ELSE -1

TextureSlotOf(ids, loaded, tag) == FindTextureIndex(ids, loaded, tag, 0)

TextureIDOf(ids, loaded, tag) ==
    LET index == FindTextureIndex(ids, loaded, tag, 0)
    IN  IF index = -1 THEN -1 ELSE ids[index].ID

FindTextureSlot(s, tag) == TextureSlotOf(s.m_textureIDs, s.m_loadedTextures, tag)
FindTextureID(s, tag) == TextureIDOf(s.m_textureIDs, s.m_loadedTextures, tag)

----------------------------------------------------------------------------
(* Material registry *)

\* the FindMaterial loop without the bFound == false test: the scan goes on
\* after a match, so the last entry with the tag is the one copied
RECURSIVE FindMaterialFrom_LastWins(_, _, _, _)
FindMaterialFrom_LastWins(mats, tag, material, index) ==
    IF index < Len(mats)
    THEN IF mats[index + 1].tag = tag
         THEN FindMaterialFrom_LastWins(mats, tag,
                  [material EXCEPT !.diffuseColor = mats[index + 1].diffuseColor,
                                   !.specularColor = mats[index + 1].specularColor,
                                   !.shininess = mats[index + 1].shininess],
                  index + 1)
         ELSE FindMaterialFrom_LastWins(mats, tag, material, index + 1)
    ELSE material

\* the while loop of FindMaterial from index on (index counts from 0): the
\* first entry whose tag compares equal has its three values copied
RECURSIVE FindMaterialFrom(_, _, _, _)
FindMaterialFrom(mats, tag, material, index) ==
    IF index < Len(mats)
    THEN IF mats[index + 1].tag = tag
         THEN [material EXCEPT !.diffuseColor = mats[index + 1].diffuseColor,
                               !.specularColor = mats[index + 1].specularColor,
                               !.shininess = mats[index + 1].shininess]
         ELSE FindMaterialFrom(mats, tag, material, index + 1)
    ELSE material

\* bool FindMaterial(tag, material&): false on an empty registry; after the
\* loop the function returns true whether or not bFound was set
FindMaterial(mats, tag, material) ==
    IF Len(mats) = 0
    THEN [ok |-> FALSE, material |-> material]
    ELSE [ok |-> TRUE, material |-> FindMaterialFrom(mats, tag, material, 0)]

DefineObjectMaterials(s) ==
    [s EXCEPT !.last = Call("DefineObjectMaterials", ""),
              !.m_objectMaterials = Append(Append(@, woodMaterial), plasticMaterial)]

----------------------------------------------------------------------------
(* Scene preparation *)

\* the image files of LoadSceneTextures and their tags, in call order
SceneTextures ==
    << [file |-> "textures/black.jpg", tag |-> "mugbase"],
       [file |-> "textures/teachflag.jpg", tag |-> "flag"],
       [file |-> "textures/Wood066_2K-JPG_Color.jpg", tag |-> "table"],
       [file |-> "textures/Wood048_1K-JPG_Color.jpg", tag |-> "plank"],
       [file |-> "textures/Plastic010_1K-JPG_Color.jpg", tag |-> "plastic"],
       [file |-> "textures/office.jpg", tag |-> "office"] >>

SceneTags == {SceneTextures[k].tag : k \in DOMAIN SceneTextures}

\* the CreateGLTexture calls of LoadSceneTextures given up at the first one
\* that returns false
RECURSIVE LoadFrom_StopOnFailure(_, _, _, _)
LoadFrom_StopOnFailure(s, imgs, k, ub) ==
    IF k > Len(SceneTextures)
    THEN s
    ELSE LET created == CreateGLTexture(s, SceneTextures[k].tag, imgs[k], ub)
         IN  IF created.last.ok
             THEN LoadFrom_StopOnFailure(Nest(s, created), imgs, k + 1, ub)
             ELSE Nest(s, created)

\* the CreateGLTexture calls of LoadSceneTextures from the k-th on; imgs[k]
\* is what stbi_load gives for the k-th file; bReturn is never looked at
RECURSIVE LoadFrom(_, _, _, _)
LoadFrom(s, imgs, k, ub) ==
    IF k > Len(SceneTextures)
    THEN s
    ELSE LoadFrom(Nest(s, CreateGLTexture(s, SceneTextures[k].tag, imgs[k], ub)),
                  imgs, k + 1, ub)

\* LoadSceneTextures with BindGLTextures called before the images are loaded
LoadSceneTextures_BindFirst(s, imgs, ub) ==
    LET s0 == [s EXCEPT !.last = Call("LoadSceneTextures", "")]
    IN  LoadFrom(Nest(s0, BindGLTextures(s0)), imgs, 1, ub)

LoadSceneTextures(s, imgs, ub) ==
    LET loaded == LoadFrom([s EXCEPT !.last = Call("LoadSceneTextures", "")], imgs, 1, ub)
    IN  Nest(loaded, BindGLTextures(loaded))

----------------------------------------------------------------------------
(* Per-draw shader setters *)

SetShaderColor(s, r, g, b, a) ==
    LET s0 == [s EXCEPT !.last = Call("SetShaderColor", "")]
    IN  IF s.m_pShaderManager # "NULL"
        THEN SetUniform(SetUniform(s0, "bUseTexture", <<0>>),
                        "objectColor", <<r, g, b, a>>)
        ELSE s0

\* SetShaderTexture that registers the tag it did not find
SetShaderTexture_RegisterMiss(s, textureTag) ==
    LET s0 == [s EXCEPT !.last = Call("SetShaderTexture", textureTag)]
    IN  IF s.m_pShaderManager # "NULL"
        THEN LET textureID == FindTextureSlot(s, textureTag)
                 s1 == SetUniform(SetUniform(s0, "bUseTexture", <<1>>),
                                  "objectTexture", <<textureID>>)
             IN  IF textureID = -1 /\ s.m_loadedTextures < MaxTextures
                 THEN [s1 EXCEPT !.m_textureIDs[s.m_loadedTextures] = [tag |-> textureTag, ID |-> 0],
                                 !.m_loadedTextures = @ + 1]
                 ELSE s1
        ELSE s0

SetShaderTexture(s, textureTag) ==
    LET s0 == [s EXCEPT !.last = Call("SetShaderTexture", textureTag)]
    IN  IF s.m_pShaderManager # "NULL"
        THEN LET textureID == FindTextureSlot(s, textureTag)
             IN  SetUniform(SetUniform(s0, "bUseTexture", <<1>>),
                            "objectTexture", <<textureID>>)
        ELSE s0

SetTextureUVScale(s, u, v) ==
    LET s0 == [s EXCEPT !.last = Call("SetTextureUVScale", "")]
    IN  IF s.m_pShaderManager # "NULL"
        THEN SetUniform(s0, "UVscale", <<u, v>>)
        ELSE s0

\* the three writes of SetShaderMaterial; m_pShaderManager is dereferenced
\* without a NULL test
WriteMaterial(s, material, ub) ==
    IF s.m_pShaderManager = "NULL"
    THEN IF ub = "fault" THEN [s EXCEPT !.fault = TRUE] ELSE s
    ELSE SetUniform(
             SetUniform(
                 SetUniform(s, "material.diffuseColor", material.diffuseColor),
                 "material.specularColor", material.specularColor),
             "material.shininess", <<material.shininess>>)

\* SetShaderMaterial that gives up the process on a tag it does not find
SetShaderMaterial_FatalMiss(s, materialTag, uninit, ub) ==
    LET s0 == [s EXCEPT !.last = Call("SetShaderMaterial", materialTag)]
    IN  IF Len(s.m_objectMaterials) > 0
        THEN LET r == FindMaterial(s.m_objectMaterials, materialTag, uninit)
             IN  IF \E k \in DOMAIN s.m_objectMaterials :
                        s.m_objectMaterials[k].tag = materialTag
                 THEN WriteMaterial(s0, r.material, ub)
                 ELSE [s0 EXCEPT !.fault = TRUE]
        ELSE s0

\* uninit is the content of the local OBJECT_MATERIAL before FindMaterial
SetShaderMaterial(s, materialTag, uninit, ub) ==
    LET s0 == [s EXCEPT !.last = Call("SetShaderMaterial", materialTag)]
    IN  IF Len(s.m_objectMaterials) > 0
        THEN LET r == FindMaterial(s.m_objectMaterials, materialTag, uninit)
             IN  IF r.ok THEN WriteMaterial(s0, r.material, ub) ELSE s0
        ELSE s0

----------------------------------------------------------------------------
(* Transformations: glm matrices with entries in thousandths *)

\* 1.0f as a matrix entry
One == 1000

\* cos of 0, 30, 60, ... 330 degrees
CosTable == << 1000, 866, 500, 0, -500, -866, -1000, -866, -500, 0, 500, 866 >>

\* cos and sin of glm::radians(degrees), for the multiples of 30 degrees
Cos(degrees) == CosTable[((degrees % 360) \div 30) + 1]
Sin(degrees) == Cos(degrees - 90)

\* the product of two mat4
MatMul(A, B) ==
    LET Entry(i, j) == (A[i][1] * B[1][j] + A[i][2] * B[2][j]
                          + A[i][3] * B[3][j] + A[i][4] * B[4][j]) \div One
        Row(i) == << Entry(i, 1), Entry(i, 2), Entry(i, 3), Entry(i, 4) >>
    IN  << Row(1), Row(2), Row(3), Row(4) >>

\* glm::scale with the w entry left at 0
glm_scale_ZeroW(v) ==
    << <<10 * v[1], 0, 0, 0>>,
       <<0, 10 * v[2], 0, 0>>,
       <<0, 0, 10 * v[3], 0>>,
       <<0, 0, 0, 0>> >>

\* glm::scale(v), v in hundredths
glm_scale(v) ==
    << <<10 * v[1], 0, 0, 0>>,
       <<0, 10 * v[2], 0, 0>>,
       <<0, 0, 10 * v[3], 0>>,
       <<0, 0, 0, One>> >>

\* glm::rotate(glm::radians(degrees), axis) for a unit axis along X, Y or Z:
\* cos * I + (1 - cos) * axis axis^T + sin * [axis]x
glm_rotate(degrees, axis) ==
    LET c == Cos(degrees)
        s == Sin(degrees)
        cross == << <<0, -axis[3], axis[2]>>,
                    <<axis[3], 0, -axis[1]>>,
                    <<-axis[2], axis[1], 0>> >>
        Entry(i, j) == (IF i = j THEN c ELSE 0)
                         + (One - c) * axis[i] * axis[j] + s * cross[i][j]
        Row(i) == << Entry(i, 1), Entry(i, 2), Entry(i, 3), 0 >>
    IN  << Row(1), Row(2), Row(3), <<0, 0, 0, One>> >>

\* glm::translate(v), v in hundredths
glm_translate(v) ==
    << <<One, 0, 0, 10 * v[1]>>,
       <<0, One, 0, 10 * v[2]>>,
       <<0, 0, One, 10 * v[3]>>,
       <<0, 0, 0, One>> >>

\* the product taken in the opposite order
modelView_ScaleLast(scaleXYZ, XrotationDegrees, YrotationDegrees, ZrotationDegrees, positionXYZ) ==
    LET scale == glm_scale(scaleXYZ)
        rotationX == glm_rotate(XrotationDegrees, <<1, 0, 0>>)
        rotationY == glm_rotate(YrotationDegrees, <<0, 1, 0>>)
        rotationZ == glm_rotate(ZrotationDegrees, <<0, 0, 1>>)
        translation == glm_translate(positionXYZ)
    IN  MatMul(MatMul(MatMul(MatMul(scale, rotationX), rotationY), rotationZ),
               translation)

\* modelView = translation * rotationZ * rotationY * rotationX * scale
modelView(scaleXYZ, XrotationDegrees, YrotationDegrees, ZrotationDegrees, positionXYZ) ==
    LET scale == glm_scale(scaleXYZ)
        rotationX == glm_rotate(XrotationDegrees, <<1, 0, 0>>)
        rotationY == glm_rotate(YrotationDegrees, <<0, 1, 0>>)
        rotationZ == glm_rotate(ZrotationDegrees, <<0, 0, 1>>)
        translation == glm_translate(positionXYZ)
    IN  MatMul(MatMul(MatMul(MatMul(translation, rotationZ), rotationY), rotationX),
               scale)

\* a SetTransformations that multiplies the new matrix onto the one the
\* previous call wrote
SetTransformations_Accumulate(s, scaleXYZ, XrotationDegrees, YrotationDegrees, ZrotationDegrees, positionXYZ) ==
    LET s0 == [s EXCEPT !.last = [Call("SetTransformations", "") EXCEPT
                   !.args = << scaleXYZ,
                               <<XrotationDegrees, YrotationDegrees, ZrotationDegrees>>,
                               positionXYZ >>]]
        m == modelView(scaleXYZ, XrotationDegrees, YrotationDegrees,
                       ZrotationDegrees, positionXYZ)
    IN  IF s.m_pShaderManager # "NULL"
        THEN SetUniform(s0, "model",
                        IF s.uniforms["model"] = <<>>
                        THEN m
                        ELSE MatMul(s.uniforms["model"], m))
        ELSE s0

SetTransformations(s, scaleXYZ, XrotationDegrees, YrotationDegrees, ZrotationDegrees, positionXYZ) ==
    LET s0 == [s EXCEPT !.last = [Call("SetTransformations", "") EXCEPT
                   !.args = << scaleXYZ,
                               <<XrotationDegrees, YrotationDegrees, ZrotationDegrees>>,
                               positionXYZ >>]]
    IN  IF s.m_pShaderManager # "NULL"
        THEN SetUniform(s0, "model",
                        modelView(scaleXYZ, XrotationDegrees, YrotationDegrees,
                                  ZrotationDegrees, positionXYZ))
        ELSE s0

----------------------------------------------------------------------------
(* Scene lights *)

\* the setVec3Value / setFloatValue / setBoolValue calls from the k-th on
RECURSIVE WriteFrom(_, _, _)
WriteFrom(s, writes, k) ==
    IF k > Len(writes)
    THEN s
    ELSE WriteFrom(SetUniform(s, writes[k].name, writes[k].value), writes, k + 1)

\* every write goes through m_pShaderManager, which is not compared with NULL
SetupSceneLights(s, ub) ==
    LET s0 == [s EXCEPT !.last = Call("SetupSceneLights", "")]
    IN  IF s.m_pShaderManager = "NULL"
        THEN IF ub = "fault" THEN [s0 EXCEPT !.fault = TRUE] ELSE s0
        ELSE WriteFrom(s0, SceneLightWrites, 1)

----------------------------------------------------------------------------

(* Initial state: SceneManager(pShaderManager) on a fresh GL context *)

Init ==
    /\ m_pShaderManager \in {"NULL", "shader"}
    /\ m_textureIDs = [i \in 0 .. MaxTextures - 1 |-> EmptyTextureInfo]
    /\ m_loadedTextures = InitialLoadedTextures
    /\ m_objectMaterials = <<>>
    /\ m_basicMeshes = {}
    /\ uniforms = [n \in UniformNames |-> <<>>]
    /\ glNextName = 1
    /\ glActiveTexture = 0
    /\ glBound = [u \in 0 .. MaxTextures - 1 |-> 0]
    /\ glImages = {}
    /\ heapImages = 0
    /\ oobWrites = {}
    /\ fault = FALSE
    /\ succeeded = <<>>
    /\ last = NoCall

----------------------------------------------------------------------------
(* Calls, with their arguments drawn from small sets *)

\* names the call takes from glGenTextures
NamesNeeded(img) == IF img = 0 THEN 0 ELSE 1

CallCreateGLTexture ==
    \E tag \in Tags, img \in DecodeOutcomes, ub \in OverflowOutcomes :
        /\ Running
        /\ glNextName - 1 + NamesNeeded(img) <= MaxNames
        /\ Commit(CreateGLTexture(State, tag, img, ub))

CallBindGLTextures ==
    /\ Running
    /\ Commit(BindGLTextures(State))

CallDestroyGLTextures ==
    /\ Running
    /\ glNextName - 1 + m_loadedTextures <= MaxNames
    /\ Commit(DestroyGLTextures(State))

CallFindTextureID ==
    \E tag \in Tags :
        /\ Running
        /\ Commit([State EXCEPT !.last = [Call("FindTextureID", tag) EXCEPT
                                            !.ret = FindTextureID(State, tag)]])

CallFindTextureSlot ==
    \E tag \in Tags :
        /\ Running
        /\ Commit([State EXCEPT !.last = [Call("FindTextureSlot", tag) EXCEPT
                                            !.ret = FindTextureSlot(State, tag)]])

CallFindMaterial ==
    \E tag \in MatTags, material \in UninitMaterials :
        /\ Running
        /\ LET r == FindMaterial(m_objectMaterials, tag, material)
           IN  Commit([State EXCEPT !.last = [Call("FindMaterial", tag) EXCEPT
                                                 !.given = material,
                                                 !.ok = r.ok, !.out = r.material]])

CallDefineObjectMaterials ==
    /\ Running
    /\ Len(m_objectMaterials) < 2 * MaxDefine
    /\ Commit(DefineObjectMaterials(State))

CallSetShaderColor ==
    /\ Running
    /\ Commit(SetShaderColor(State, 100, 100, 100, 100))

CallSetShaderTexture ==
    \E tag \in Tags :
        /\ Running
        /\ Commit(SetShaderTexture(State, tag))

CallSetTextureUVScale ==
    \E uv \in {50, 100} :
        /\ Running
        /\ Commit(SetTextureUVScale(State, uv, uv))

CallSetShaderMaterial ==
    \E tag \in MatTags, uninit \in UninitMaterials, ub \in NullCallOutcomes :
        /\ Running
        /\ Commit(SetShaderMaterial(State, tag, uninit, ub))

\* the texture registry and the setter that reads it
Next ==
    \/ CallCreateGLTexture
    \/ CallBindGLTextures
    \/ CallDestroyGLTextures
    \/ CallFindTextureID
    \/ CallFindTextureSlot
    \/ CallSetShaderTexture

Spec == Init /\ [][Next]_vars

\* the material registry as DefineObjectMaterials fills it, and the setters
NextMaterial ==
    \/ CallDefineObjectMaterials
    \/ CallFindMaterial
    \/ CallSetShaderMaterial
    \/ CallSetTextureUVScale
    \/ CallSetShaderColor

SpecMaterial == Init /\ [][NextMaterial]_vars

\* registrations with pairwise distinct tags, up to and past the 16 slots
CapCreateGLTexture ==
    \E img \in DecodeOutcomes, ub \in OverflowOutcomes :
        /\ Running
        /\ Len(succeeded) < Len(CapTags)
        /\ (img \in {1, 2} => heapImages < MaxCapLeaks)
        /\ Commit(CreateGLTexture(State, CapTags[Len(succeeded) + 1], img, ub))

CapFindTextureSlot ==
    \E k \in 1 .. Len(CapTags) :
        /\ Running
        /\ k <= Len(succeeded) + 1
        /\ Commit([State EXCEPT !.last = [Call("FindTextureSlot", CapTags[k]) EXCEPT
                                            !.ret = FindTextureSlot(State, CapTags[k])]])

NextCap ==
    \/ CapCreateGLTexture
    \/ CapFindTextureSlot

SpecCap == Init /\ [][NextCap]_vars

\* FindMaterial and SetShaderMaterial over every small material registry
darkWood == Material("wood", <<60, 30, 10>>, <<20, 10, 5>>, 2500)

MaterialPool == {woodMaterial, plasticMaterial, darkWood}

RECURSIVE SeqsUpTo(_, _)
SeqsUpTo(S, n) ==
    IF n = 0
    THEN {<<>>}
    ELSE LET shorter == SeqsUpTo(S, n - 1)
         IN  shorter \cup {Append(q, x) : q \in shorter, x \in S}

InitLookup ==
    /\ m_pShaderManager \in {"NULL", "shader"}
    /\ m_textureIDs = [i \in 0 .. MaxTextures - 1 |-> EmptyTextureInfo]
    /\ m_loadedTextures = InitialLoadedTextures
    /\ m_objectMaterials \in SeqsUpTo(MaterialPool, MaxMats)
    /\ m_basicMeshes = {}
    /\ uniforms = [n \in UniformNames |-> <<>>]
    /\ glNextName = 1
    /\ glActiveTexture = 0
    /\ glBound = [u \in 0 .. MaxTextures - 1 |-> 0]
    /\ glImages = {}
    /\ heapImages = 0
    /\ oobWrites = {}
    /\ fault = FALSE
    /\ succeeded = <<>>
    /\ last = NoCall

NextLookup ==
    \/ CallFindMaterial
    \/ CallSetShaderMaterial

SpecLookup == InitLookup /\ [][NextLookup]_vars

----------------------------------------------------------------------------
(* Properties *)

Range(q) == {q[k] : k \in DOMAIN q}

Distinct(q) == \A j, k \in DOMAIN q : j # k => q[j] # q[k]

\* the tags stored in the used part of m_textureIDs
RegisteredTags == {m_textureIDs[i].tag : i \in 0 .. m_loadedTextures - 1}

\* the tags stored in m_objectMaterials
MaterialTags == {m_objectMaterials[k].tag : k \in DOMAIN m_objectMaterials}

\* the indices (from 1) of the materials registered under tag
MaterialsTagged(tag) == {k \in DOMAIN m_objectMaterials : m_objectMaterials[k].tag = tag}

\* C1: a CreateGLTexture call whose image decodes with a channel count other
\* than 3 or 4 returns false and consumes no slot: m_loadedTextures and every
\* entry of m_textureIDs keep their values, so the slot the next successful
\* registration gets (m_loadedTextures) is the one it would have got anyway.
C1_BadChannelsConsumeNoSlot ==
    [][ (last'.op = "CreateGLTexture" /\ last'.img \in {1, 2})
            => /\ last'.ok = FALSE
               /\ m_loadedTextures' = m_loadedTextures
               /\ m_textureIDs' = m_textureIDs
               /\ succeeded' = succeeded ]_vars

\* C1 case: a two-channel image has just been refused while a texture is registered
C1_Witness ==
    /\ last.op = "CreateGLTexture"
    /\ last.img = 2
    /\ last.ok = FALSE
    /\ m_loadedTextures = 1
    /\ glNextName = 3

\* C2: the number of registered textures never exceeds the 16 slots: the
\* registration attempted with 16 textures registered is refused, nothing is
\* written at index 16 or beyond, and the program goes on.
C2_CapacityRespected ==
    /\ m_loadedTextures <= MaxTextures
    /\ oobWrites = {}
    /\ ~fault

\* C3: SetShaderMaterial with a tag that matches no entry of the material
\* registry writes none of the material uniforms.
C3_MaterialMissWritesNothing ==
    (last.op = "SetShaderMaterial" /\ last.tag \notin MaterialTags)
        => last.writes = <<>>

\* C4: SetShaderTexture with a tag that is not registered writes neither
\* bUseTexture nor objectTexture.
C4_TextureMissWritesNothing ==
    (last.op = "SetShaderTexture" /\ last.tag \notin RegisteredTags)
        => last.writes = <<>>

\* C5: FindTextureSlot and FindTextureID return -1 for every tag that no
\* successful registration used, on the empty registry as on any other, and
\* change nothing of the registry.
C5_UnregisteredTagNotFound ==
    [][ last'.op \in {"FindTextureSlot", "FindTextureID"}
            => /\ (last'.tag \notin Range(succeeded) => last'.ret = -1)
               /\ m_textureIDs' = m_textureIDs
               /\ m_loadedTextures' = m_loadedTextures
               /\ m_objectMaterials' = m_objectMaterials ]_vars

\* C5 case: a lookup has just missed on a registry that holds another tag
C5_Witness ==
    /\ last.op \in {"FindTextureSlot", "FindTextureID"}
    /\ m_loadedTextures >= 1
    /\ last.tag \notin Range(succeeded)
    /\ last.ret = -1

\* C6: FindMaterial with a tag that matches no entry returns false, on the
\* empty registry as on any other, and leaves the output material as given.
C6_MaterialMissReturnsFalse ==
    (last.op = "FindMaterial" /\ last.tag \notin MaterialTags)
        => (last.ok = FALSE /\ last.out = last.given)

\* C7: when the successfully registered tags are pairwise distinct (and the
\* registrations fit the 16 slots), every one of them resolves to a slot >= 0
\* and no two of them resolve to the same slot.
C7_RegisteredTagsResolveUniquely ==
    Distinct(succeeded)
        => /\ \A k \in DOMAIN succeeded : FindTextureSlot(State, succeeded[k]) >= 0
           /\ \A j, k \in DOMAIN succeeded :
                  j # k => FindTextureSlot(State, succeeded[j])
                             # FindTextureSlot(State, succeeded[k])

\* C7 case: three distinct tags are registered
C7_Witness ==
    /\ Len(succeeded) = 3
    /\ Distinct(succeeded)
    /\ {FindTextureSlot(State, tag) : tag \in Tags} = {0, 1, 2}

\* C9: m_loadedTextures never decreases, and a tag that resolves to a slot
\* resolves to the same slot after every later call.
C9_SlotsAreStable ==
    [][ /\ m_loadedTextures' >= m_loadedTextures
        /\ \A tag \in Tags :
               TextureSlotOf(m_textureIDs, m_loadedTextures, tag) >= 0
                   => TextureSlotOf(m_textureIDs', m_loadedTextures', tag)
                        = TextureSlotOf(m_textureIDs, m_loadedTextures, tag) ]_vars

\* C9 case: DestroyGLTextures has run on a registry whose tag still resolves
C9_Witness ==
    /\ last.op = "DestroyGLTextures"
    /\ m_loadedTextures = 1
    /\ FindTextureSlot(State, succeeded[1]) = 0

\* C10: when a tag is registered more than once in m_objectMaterials,
\* FindMaterial fills the output with the three values of the entry of lowest
\* index that has the tag.
C10_FirstMaterialWins ==
    (last.op = "FindMaterial" /\ Cardinality(MaterialsTagged(last.tag)) > 1)
        => LET first == CHOOSE k \in MaterialsTagged(last.tag) :
                            \A j \in MaterialsTagged(last.tag) : k <= j
           IN  /\ last.ok
               /\ last.out.diffuseColor = m_objectMaterials[first].diffuseColor
               /\ last.out.specularColor = m_objectMaterials[first].specularColor
               /\ last.out.shininess = m_objectMaterials[first].shininess

\* C10 case: the tag is registered twice with different values and the
\* output is not the later entry
C10_Witness ==
    /\ last.op = "FindMaterial"
    /\ Len(m_objectMaterials) >= 2
    /\ m_objectMaterials[1].tag = last.tag
    /\ m_objectMaterials[2].tag = last.tag
    /\ m_objectMaterials[1].shininess # m_objectMaterials[2].shininess
    /\ last.out.shininess = m_objectMaterials[1].shininess

----------------------------------------------------------------------------
(* Scene preparation and rendering *)

\* the Load*Mesh calls of PrepareScene, in order
SceneMeshes ==
    << [call |-> "LoadPlaneMesh", mesh |-> "plane"],
       [call |-> "LoadCylinderMesh", mesh |-> "cylinder"],
       [call |-> "LoadTorusMesh", mesh |-> "torus"],
       [call |-> "LoadBoxMesh", mesh |-> "box"],
       [call |-> "LoadSphereMesh", mesh |-> "sphere"] >>

\* m_basicMeshes->Load...Mesh()
LoadMesh(s, call, mesh) ==
    [s EXCEPT !.last = Call(call, mesh), !.m_basicMeshes = @ \cup {mesh}]

RECURSIVE LoadMeshesFrom(_, _)
LoadMeshesFrom(s, k) ==
    IF k > Len(SceneMeshes)
    THEN s
    ELSE LoadMeshesFrom(Nest(s, LoadMesh(s, SceneMeshes[k].call, SceneMeshes[k].mesh)),
                        k + 1)

PrepareScene(s, imgs, ub, nullub) ==
    LET s0 == [s EXCEPT !.last = Call("PrepareScene", "")]
        s1 == Nest(s0, DefineObjectMaterials(s0))
        s2 == Nest(s1, SetupSceneLights(s1, nullub))
        s3 == Nest(s2, LoadSceneTextures(s2, imgs, ub))
    IN  LoadMeshesFrom(s3, 1)

\* the uniforms of the active program a draw call is rendered with
DrawUniformNames ==
    {"model", "objectColor", "objectTexture", "bUseTexture", "UVscale",
     "material.diffuseColor", "material.specularColor", "material.shininess"}

\* m_basicMeshes->Draw...Mesh(...): the mesh is drawn with the uniforms as
\* they are
DrawMesh(s, call, part) ==
    [s EXCEPT !.last = [Call(call, part) EXCEPT
                           !.drawn = [n \in DrawUniformNames |-> s.uniforms[n]]]]

\* the calls a Render function makes
Transform(scaleXYZ, XrotationDegrees, YrotationDegrees, ZrotationDegrees, positionXYZ) ==
    [op |-> "SetTransformations", scale |-> scaleXYZ,
     rot |-> <<XrotationDegrees, YrotationDegrees, ZrotationDegrees>>,
     pos |-> positionXYZ]
Texture(tag) == [op |-> "SetShaderTexture", tag |-> tag]
UVScale(u, v) == [op |-> "SetTextureUVScale", uv |-> <<u, v>>]
ShaderMaterial(tag) == [op |-> "SetShaderMaterial", tag |-> tag]
Draw(call, part) == [op |-> call, part |-> part]

\* lines 555-577
RenderTableTop ==
    << Transform(<<3000, 100, 1500>>, 0, 0, 0, <<0, -50, 300>>),
       Texture("table"),
       ShaderMaterial("wood"),
       Draw("DrawBoxMesh", "") >>

\* lines 587-643: the body of the mug, its bottom, its handle
RenderMug ==
    << Transform(<<100, 280, 100>>, 0, 120, 0, <<-1020, 10, 300>>),
       Texture("flag"),
       UVScale(50, 50),
       ShaderMaterial("wood"),
       Draw("DrawCylinderMesh", "side"),
       Texture("mugbase"),
       UVScale(50, 50),
       ShaderMaterial("wood"),
       Draw("DrawCylinderMesh", "bottom"),
       Transform(<<60, 90, 60>>, 0, 0, 0, <<-900, 150, 300>>),
       Texture("mugbase"),
       ShaderMaterial("wood"),
       Draw("DrawTorusMesh", "") >>

\* lines 657-684
RenderOffieDeskItem ==
    << Transform(<<600, 500, 50>>, 0, 0, 0, <<-450, 250, 300>>),
       Texture("office"),
       UVScale(100, 100),
       ShaderMaterial("wood"),
       Draw("DrawBoxMeshSide", "front"),
       Texture("mugbase"),
       UVScale(100, 100),
       ShaderMaterial("wood"),
       Draw("DrawBoxMesh", "") >>

\* lines 697-756: the base of the can, its side
RenderTrashCan ==
    << Transform(<<253, 100, 253>>, 180, 0, 0, <<450, 100, 300>>),
       Texture("plastic"),
       UVScale(100, 100),
       ShaderMaterial("plastic"),
       Draw("DrawHalfSphereMesh", ""),
       Transform(<<250, 500, 250>>, 0, 0, 0, <<450, 97, 300>>),
       Texture("plastic"),
       UVScale(100, 100),
       ShaderMaterial("plastic"),
       Draw("DrawCylinderMesh", "side") >>

\* RenderScrapWood with a texture tag LoadSceneTextures does not register
RenderScrapWood_Oak ==
    << Transform(<<100, 700, 100>>, 0, 0, 0, <<1000, 350, 300>>),
       Texture("oak"),
       UVScale(100, 100),
       ShaderMaterial("wood"),
       Draw("DrawBoxMesh", "") >>

\* lines 770-796
RenderScrapWood ==
    << Transform(<<100, 700, 100>>, 0, 0, 0, <<1000, 350, 300>>),
       Texture("plank"),
       UVScale(100, 100),
       ShaderMaterial("wood"),
       Draw("DrawBoxMesh", "") >>

\* the draw calls of m_basicMeshes the scene uses
DrawCalls ==
    {"DrawBoxMesh", "DrawBoxMeshSide", "DrawCylinderMesh", "DrawTorusMesh",
     "DrawHalfSphereMesh"}

\* one call of a Render function
Exec(s, cmd, uninit, ub) ==
    CASE cmd.op = "SetTransformations" ->
             SetTransformations(s, cmd.scale, cmd.rot[1], cmd.rot[2], cmd.rot[3], cmd.pos)
      [] cmd.op = "SetShaderTexture" -> SetShaderTexture(s, cmd.tag)
      [] cmd.op = "SetTextureUVScale" -> SetTextureUVScale(s, cmd.uv[1], cmd.uv[2])
      [] cmd.op = "SetShaderMaterial" -> SetShaderMaterial(s, cmd.tag, uninit, ub)
      [] cmd.op \in DrawCalls -> DrawMesh(s, cmd.op, cmd.part)

\* the calls of a Render function from the k-th on
RECURSIVE RenderFrom(_, _, _, _, _)
RenderFrom(s, cmds, k, uninit, ub) ==
    IF k > Len(cmds)
    THEN s
    ELSE RenderFrom(Nest(s, Exec(s, cmds[k], uninit, ub)), cmds, k + 1, uninit, ub)

\* RenderScene with the mug drawn before the table top
RenderScene_MugFirst(s, uninit, ub) ==
    RenderFrom([s EXCEPT !.last = Call("RenderScene", "")],
               RenderMug \o RenderTableTop \o RenderOffieDeskItem
                   \o RenderTrashCan \o RenderScrapWood,
               1, uninit, ub)

\* RenderTableTop(); RenderMug(); RenderOffieDeskItem(); RenderTrashCan();
\* RenderScrapWood();
RenderScene(s, uninit, ub) ==
    RenderFrom([s EXCEPT !.last = Call("RenderScene", "")],
               RenderTableTop \o RenderMug \o RenderOffieDeskItem
                   \o RenderTrashCan \o RenderScrapWood,
               1, uninit, ub)

\* stbi_load on a scene file at start-up: the file is missing, or it is the
\* RGB image that was shipped
SceneFileOutcomes == {0, 3}

\* PrepareScene is called once, at start-up, on the new SceneManager
CallPrepareScene ==
    \E imgs \in [DOMAIN SceneTextures -> SceneFileOutcomes], ub \in OverflowOutcomes,
       nullub \in NullCallOutcomes :
        /\ Running
        /\ last = NoCall
        /\ Commit(PrepareScene(State, imgs, ub, nullub))

\* the render loop calls RenderScene once PrepareScene has returned
CallRenderScene ==
    \E uninit \in UninitMaterials, ub \in NullCallOutcomes :
        /\ Running
        /\ m_basicMeshes # {}
        /\ Commit(RenderScene(State, uninit, ub))

\* LoadSceneTextures over every outcome of decoding its six files, before
\* PrepareScene has run
\* (a write past m_textureIDs has an outcome to choose only when the six
\* registrations can pass MaxTextures)
CallLoadSceneTextures ==
    \E imgs \in [DOMAIN SceneTextures -> JpegOutcomes],
       ub \in IF m_loadedTextures + Len(SceneTextures) > MaxTextures
              THEN OverflowOutcomes ELSE {"fault"} :
        /\ Running
        /\ m_basicMeshes = {}
        /\ glNextName - 1 + Len(SceneTextures) <= MaxSceneNames
        /\ Commit(LoadSceneTextures(State, imgs, ub))

SceneFindTextureSlot ==
    \E tag \in SceneTags :
        /\ Running
        /\ Commit([State EXCEPT !.last = [Call("FindTextureSlot", tag) EXCEPT
                                            !.ret = FindTextureSlot(State, tag)]])

NextScene ==
    \/ CallLoadSceneTextures
    \/ CallPrepareScene
    \/ CallRenderScene
    \/ SceneFindTextureSlot

SpecScene == Init /\ [][NextScene]_vars

\* C8: when the successfully registered tags are pairwise distinct, the k-th
\* successful registration resolves to slot k-1, before and after
\* BindGLTextures; so the six textures of LoadSceneTextures resolve to
\* 0, 1, 2, 3, 4, 5 in call order.
C8_SlotsFollowRegistrationOrder ==
    Distinct(succeeded)
        => \A k \in DOMAIN succeeded : FindTextureSlot(State, succeeded[k]) = k - 1

\* C8 case: LoadSceneTextures has registered and bound all six textures
C8_Witness ==
    /\ last.op = "LoadSceneTextures"
    /\ succeeded = [k \in DOMAIN SceneTextures |-> SceneTextures[k].tag]
    /\ \A k \in DOMAIN SceneTextures :
           /\ FindTextureSlot(State, SceneTextures[k].tag) = k - 1
           /\ glBound[k - 1] = m_textureIDs[k - 1].ID
           /\ glBound[k - 1] # 0

\* the positions (from 1) of the successful registrations made under tag
RegistrationsOf(tag) == {k \in DOMAIN succeeded : succeeded[k] = tag}

\* C11: the texture lookup is first-match in registration order with an
\* exact, case-sensitive comparison: for a tag registered several times
\* FindTextureSlot returns the smallest index that holds it and FindTextureID
\* the handle stored at that same index; a tag no registration used, such as
\* one that differs from a registered tag only in letter case, gives -1.
C11_FirstTextureWins ==
    /\ \A tag \in Tags :
           IF RegistrationsOf(tag) = {}
           THEN /\ FindTextureSlot(State, tag) = -1
                /\ FindTextureID(State, tag) = -1
           ELSE LET first == CHOOSE k \in RegistrationsOf(tag) :
                                 \A j \in RegistrationsOf(tag) : k <= j
                IN  /\ FindTextureSlot(State, tag) = first - 1
                    /\ FindTextureID(State, tag) = m_textureIDs[first - 1].ID
    /\ ("table" \in Range(succeeded) /\ "Table" \notin Range(succeeded))
           => FindTextureSlot(State, "Table") = -1
    /\ ("Table" \in Range(succeeded) /\ "table" \notin Range(succeeded))
           => FindTextureSlot(State, "table") = -1

\* C11 case: "table" is registered at indices 1 and 2 with different
\* handles, "Table" is not registered
C11_Witness ==
    /\ succeeded = <<"flag", "table", "table">>
    /\ m_textureIDs[1].ID # m_textureIDs[2].ID
    /\ FindTextureSlot(State, "table") = 1
    /\ FindTextureID(State, "table") = m_textureIDs[1].ID
    /\ FindTextureSlot(State, "Table") = -1

\* C12: BindGLTextures binds the handle stored at index i to texture unit i
\* for every i in 0 .. m_loadedTextures-1, leaves the binding of every unit
\* from m_loadedTextures on as it was, and changes no registry entry.
C12_BindCoversRegisteredSlots ==
    [][ last'.op = "BindGLTextures"
            => /\ \A i \in 0 .. MaxTextures - 1 :
                      glBound'[i] = IF i < m_loadedTextures
                                    THEN m_textureIDs[i].ID
                                    ELSE glBound[i]
               /\ m_textureIDs' = m_textureIDs
               /\ m_loadedTextures' = m_loadedTextures ]_vars

\* C12 case: two textures are registered and have just been bound to units 0
\* and 1, unit 2 has nothing bound
C12_Witness ==
    /\ last.op = "BindGLTextures"
    /\ m_loadedTextures = 2
    /\ glBound[0] = m_textureIDs[0].ID
    /\ glBound[1] = m_textureIDs[1].ID
    /\ glBound[0] # glBound[1]
    /\ glBound[2] = 0

\* the texture names that are allocated on the GL side: glGenTextures hands
\* out glNextName and nothing in the source calls glDeleteTextures
GLAllocatedNames == 1 .. glNextName - 1

\* C14: DestroyGLTextures releases all GPU resources: after it returns every
\* handle stored in the used part of the registry is freed, and the call
\* allocates no new texture name.
C14_DestroyReleasesHandles ==
    [][ last'.op = "DestroyGLTextures"
            => /\ glNextName' = glNextName
               /\ \A i \in 0 .. m_loadedTextures - 1 :
                      m_textureIDs[i].ID \notin GLAllocatedNames' ]_vars

----------------------------------------------------------------------------
(* SetTransformations and SetupSceneLights *)

\* arguments of SetTransformations: scales and positions in hundredths,
\* rotations in degrees
XformScales == { <<100, 100, 100>>, <<200, 100, 100>> }
XformAngles == {0, 90, 180, 270}
\* quarter turns about any of the axes together, larger turns about one axis
XformRotations ==
    { r \in XformAngles \X XformAngles \X XformAngles :
          \/ \A k \in 1 .. 3 : r[k] <= 90
          \/ Cardinality({k \in 1 .. 3 : r[k] = 0}) >= 2 }
XformPositions == { <<0, 0, 0>>, <<500, 0, 0>> }

CallSetTransformations ==
    \E scaleXYZ \in XformScales, positionXYZ \in XformPositions,
       rotation \in XformRotations :
        /\ Running
        /\ Commit(SetTransformations(State, scaleXYZ, rotation[1], rotation[2],
                                     rotation[3], positionXYZ))

CallSetupSceneLights ==
    \E ub \in NullCallOutcomes :
        /\ Running
        /\ Commit(SetupSceneLights(State, ub))

\* a texture for the registry the setters must leave alone
ShaderCreateGLTexture ==
    \E tag \in {"table"}, img \in {3}, ub \in OverflowOutcomes :
        /\ Running
        /\ m_loadedTextures < MaxShaderTextures
        /\ Commit(CreateGLTexture(State, tag, img, ub))

NextShader ==
    \/ CallSetTransformations
    \/ CallSetupSceneLights
    \/ CallDefineObjectMaterials
    \/ ShaderCreateGLTexture

SpecShader == Init /\ [][NextShader]_vars

\* the origin and the three unit points, in thousandths
BasisPoints == { <<0, 0, 0>>, <<1000, 0, 0>>, <<0, 1000, 0>>, <<0, 0, 1000>> }

\* the point a mat4 maps the point p to
ApplyMatrix(M, p) ==
    LET Coordinate(i) ==
            (M[i][1] * p[1] + M[i][2] * p[2] + M[i][3] * p[3] + M[i][4] * One) \div One
    IN  << Coordinate(1), Coordinate(2), Coordinate(3) >>

\* a quarter turn of a point about the X, Y or Z axis
QuarterTurn(axis, p) ==
    CASE axis = "X" -> << p[1], -p[3], p[2] >>
      [] axis = "Y" -> << p[3], p[2], -p[1] >>
      [] axis = "Z" -> << -p[2], p[1], p[3] >>

\* the point turned by degrees (a multiple of 90) about the axis
RECURSIVE Turned(_, _, _)
Turned(axis, degrees, p) ==
    IF degrees = 0 THEN p ELSE Turned(axis, degrees - 90, QuarterTurn(axis, p))

\* p scaled, then turned about X, then about Y, then about Z, then moved
Transformed(scaleXYZ, rotation, positionXYZ, p) ==
    LET scaled == << (p[1] * scaleXYZ[1]) \div 100, (p[2] * scaleXYZ[2]) \div 100,
                     (p[3] * scaleXYZ[3]) \div 100 >>
        turned == Turned("Z", rotation[3],
                      Turned("Y", rotation[2], Turned("X", rotation[1], scaled)))
    IN  << turned[1] + 10 * positionXYZ[1], turned[2] + 10 * positionXYZ[2],
           turned[3] + 10 * positionXYZ[3] >>

\* C15: the matrix SetTransformations writes to "model" is
\* Translation * RotationZ * RotationY * RotationX * Scale: it scales a point
\* first, then turns it about X, about Y and about Z, then moves it (checked
\* for rotations that are multiples of 90 degrees); with scale (2,1,1),
\* rotation (0,90,0) and translation (5,0,0) the point (1,0,0) goes to (5,0,-2).
C15_ModelIsTRzRyRxS ==
    (last.op = "SetTransformations" /\ m_pShaderManager # "NULL")
        => /\ uniforms["model"][4] = <<0, 0, 0, One>>
           /\ \A p \in BasisPoints :
                  ApplyMatrix(uniforms["model"], p)
                      = Transformed(last.args[1], last.args[2], last.args[3], p)
           /\ last.args = << <<200, 100, 100>>, <<0, 90, 0>>, <<500, 0, 0>> >>
                  => ApplyMatrix(uniforms["model"], <<1000, 0, 0>>) = <<5000, 0, -2000>>

\* C15 case: the call with scale (2,1,1), rotation (0,90,0), translation (5,0,0)
C15_Witness ==
    /\ last.op = "SetTransformations"
    /\ m_pShaderManager # "NULL"
    /\ last.args = << <<200, 100, 100>>, <<0, 90, 0>>, <<500, 0, 0>> >>
    /\ ApplyMatrix(uniforms["model"], <<1000, 0, 0>>) = <<5000, 0, -2000>>

\* C16: SetTransformations with scale (1,1,1), no rotation and no translation
\* writes the identity matrix to "model".
C16_IdentityTransform ==
    ( /\ last.op = "SetTransformations"
      /\ m_pShaderManager # "NULL"
      /\ last.args = << <<100, 100, 100>>, <<0, 0, 0>>, <<0, 0, 0>> >> )
        => uniforms["model"] = << <<1000, 0, 0, 0>>, <<0, 1000, 0, 0>>,
                                  <<0, 0, 1000, 0>>, <<0, 0, 0, 1000>> >>

\* C16 case: the call with the identity arguments has written the identity
C16_Witness ==
    /\ last.op = "SetTransformations"
    /\ last.args = << <<100, 100, 100>>, <<0, 0, 0>>, <<0, 0, 0>> >>
    /\ last.writes = <<"model">>
    /\ \A p \in BasisPoints : ApplyMatrix(uniforms["model"], p) = p

\* C17: a SetTransformations call with a non-NULL shader manager writes
\* exactly one uniform, "model"; every other uniform, the texture registry,
\* m_loadedTextures, the material registry and the meshes stay as they were,
\* and the matrix written is a function of the arguments of this call alone.
C17_TransformWritesOnlyModel ==
    [][ (last'.op = "SetTransformations" /\ m_pShaderManager # "NULL")
            => /\ last'.writes = <<"model">>
               /\ \A n \in UniformNames \ {"model"} : uniforms'[n] = uniforms[n]
               /\ m_textureIDs' = m_textureIDs
               /\ m_loadedTextures' = m_loadedTextures
               /\ m_objectMaterials' = m_objectMaterials
               /\ m_basicMeshes' = m_basicMeshes
               /\ glBound' = glBound
               /\ \A p \in BasisPoints :
                      ApplyMatrix(uniforms'["model"], p)
                          = Transformed(last'.args[1], last'.args[2], last'.args[3], p)
      ]_vars

\* C17 case: a second transformation is written while a texture, materials
\* and the lights are in place
C17_Witness ==
    /\ last.op = "SetTransformations"
    /\ last.writes = <<"model">>
    /\ last.args = << <<100, 100, 100>>, <<90, 0, 0>>, <<0, 0, 0>> >>
    /\ m_loadedTextures = 1
    /\ Len(m_objectMaterials) = 2
    /\ uniforms["spotLight.bActive"] = <<1>>

\* the parameters of a directional, a spot and a point light
DirectionalFields == {"direction", "ambient", "diffuse", "specular", "bActive"}
SpotFields == {"position", "direction", "ambient", "diffuse", "specular", "cutOff",
               "outerCutOff", "constant", "linear", "quadratic", "bActive"}
PointFields == {"position", "ambient", "diffuse", "specular", "constant", "linear",
                "quadratic", "bActive"}

\* the uniforms of one directional block, one spot block and point blocks 0..3
LightBlockUniforms ==
    {"directionalLight." \o f : f \in DirectionalFields}
    \cup {"spotLight." \o f : f \in SpotFields}
    \cup UNION { {"pointLights[" \o i \o "]." \o f : f \in PointFields} :
                 i \in {"0", "1", "2", "3"} }

\* C18: apart from the lighting switch and the global ambient term,
\* SetupSceneLights writes exactly the uniforms of one directional-light
\* block, one spot-light block and the point-light blocks 0, 1, 2, 3, each
\* with its full parameter set including bActive, each once, and no uniform
\* of any other block or index.
C18_LightBlocksComplete ==
    (last.op = "SetupSceneLights" /\ m_pShaderManager # "NULL")
        => /\ Range(last.writes) \ {"bUseLighting", "ambientLight"} = LightBlockUniforms
           /\ Len(last.writes) = Cardinality(LightBlockUniforms) + 2
           /\ \A n \in LightBlockUniforms : uniforms[n] # <<>>
           /\ uniforms["directionalLight.bActive"] = <<1>>
           /\ uniforms["spotLight.bActive"] = <<1>>
           /\ \A i \in {"0", "1", "2", "3"} :
                  uniforms["pointLights[" \o i \o "].bActive"] = <<1>>

\* C18 case: SetupSceneLights has written its 50 uniforms
C18_Witness ==
    /\ last.op = "SetupSceneLights"
    /\ Len(last.writes) = 50
    /\ uniforms["pointLights[3].quadratic"] = <<70>>
    /\ uniforms["spotLight.outerCutOff"] = <<866>>

----------------------------------------------------------------------------
(* Properties of scene preparation and rendering *)

\* the positions in a sequence of events of the calls of the given functions
IndicesOf(events, calls) == {k \in DOMAIN events : events[k].call \in calls}

\* the events of the CreateGLTexture calls, in order
CreateEvents(events) ==
    LET IsCreate(e) == e.call = "CreateGLTexture"
    IN  SelectSeq(events, IsCreate)

\* C13: PrepareScene calls BindGLTextures exactly once, after its last
\* CreateGLTexture call, and draws nothing; RenderScene, where the mesh draw
\* calls are, calls neither BindGLTextures nor CreateGLTexture and leaves
\* the registry and the bindings alone.  So in a run of PrepareScene
\* followed by any number of RenderScene calls BindGLTextures is called
\* exactly once, after the last CreateGLTexture and before the first draw.
C13_BindOnceBetweenLoadAndDraw ==
    [][ /\ (last'.op = "PrepareScene" /\ ~fault')
            => /\ Cardinality(IndicesOf(last'.events, {"BindGLTextures"})) = 1
               /\ \A b \in IndicesOf(last'.events, {"BindGLTextures"}),
                     c \in IndicesOf(last'.events, {"CreateGLTexture"}) : c < b
               /\ IndicesOf(last'.events, DrawCalls) = {}
        /\ last'.op = "RenderScene"
            => /\ IndicesOf(last'.events, {"BindGLTextures", "CreateGLTexture"}) = {}
               /\ m_textureIDs' = m_textureIDs
               /\ m_loadedTextures' = m_loadedTextures
               /\ glBound' = glBound ]_vars

\* C13 case: a frame with its nine draw calls has been rendered after
\* PrepareScene loaded and bound the six textures
C13_Witness ==
    /\ last.op = "RenderScene"
    /\ Cardinality(m_basicMeshes) = 5
    /\ m_loadedTextures = 6
    /\ Cardinality(IndicesOf(last.events, DrawCalls)) = 9
    /\ \A i \in 0 .. 5 : glBound[i] = m_textureIDs[i].ID /\ glBound[i] # 0

\* C19: in a frame every mesh draw call comes right after a material write,
\* which comes right after a UVscale write, which comes right after a texture
\* (or colour) selection: no mesh is drawn with a UVscale left over from the
\* object or the frame before.
C19_EveryDrawSetsUVScale ==
    (last.op = "RenderScene" /\ ~fault)
        => \A d \in IndicesOf(last.events, DrawCalls) :
               /\ d > 3
               /\ last.events[d - 1].call = "SetShaderMaterial"
               /\ last.events[d - 2].call = "SetTextureUVScale"
               /\ last.events[d - 3].call \in {"SetShaderTexture", "SetShaderColor"}

\* C20: a CreateGLTexture call on a file that cannot be decoded returns
\* false and leaves m_loadedTextures and the registry as they were, and
\* LoadSceneTextures goes on: it makes the CreateGLTexture call of every one
\* of its files, in order, then calls BindGLTextures; the tags that did load
\* are stored in call order after the entries that were there and resolve
\* to slots that are pairwise different.
C20_FailedLoadDoesNotStopPreparation ==
    [][ (last'.op \in {"LoadSceneTextures", "PrepareScene"} /\ ~fault')
            => LET creates == CreateEvents(last'.events)
                   IsOk(e) == e.ok
                   oks == SelectSeq(creates, IsOk)
                   SlotAfter(tag) == TextureSlotOf(m_textureIDs', m_loadedTextures', tag)
               IN  /\ [k \in DOMAIN creates |-> creates[k].arg]
                         = [k \in DOMAIN SceneTextures |-> SceneTextures[k].tag]
                   /\ \A k \in DOMAIN creates :
                          /\ creates[k].img = 0 => ~creates[k].ok
                          /\ ~creates[k].ok
                                => creates[k].loaded = IF k = 1 THEN m_loadedTextures
                                                       ELSE creates[k - 1].loaded
                   /\ IndicesOf(last'.events, {"BindGLTextures"}) # {}
                   /\ \A b \in IndicesOf(last'.events, {"BindGLTextures"}),
                         c \in IndicesOf(last'.events, {"CreateGLTexture"}) : c < b
                   /\ m_loadedTextures' = m_loadedTextures + Len(oks)
                   /\ \A i \in 0 .. m_loadedTextures - 1 : m_textureIDs'[i] = m_textureIDs[i]
                   /\ \A k \in DOMAIN oks :
                          /\ m_textureIDs'[m_loadedTextures + k - 1].tag = oks[k].arg
                          /\ SlotAfter(oks[k].arg) >= 0
                          /\ glBound'[m_loadedTextures + k - 1]
                                = m_textureIDs'[m_loadedTextures + k - 1].ID
                   /\ \A j, k \in DOMAIN oks :
                          j # k => SlotAfter(oks[j].arg) # SlotAfter(oks[k].arg) ]_vars

\* C20 case: the second file (tag "flag") was missing, the other five
\* textures are registered at 0 .. 4 and bound
C20_Witness ==
    /\ last.op = "PrepareScene"
    /\ LET creates == CreateEvents(last.events)
       IN  /\ Len(creates) = 6
           /\ creates[2].arg = "flag" /\ creates[2].img = 0 /\ ~creates[2].ok
           /\ \A k \in {1, 3, 4, 5, 6} : creates[k].ok
    /\ m_loadedTextures = 5
    /\ FindTextureSlot(State, "flag") = -1
    /\ FindTextureSlot(State, "table") = 1
    /\ FindTextureSlot(State, "office") = 4
    /\ glBound[4] = m_textureIDs[4].ID

----------------------------------------------------------------------------
(* Diagnostics, NULL shader manager, resources of CreateGLTexture *)

\* C24: every lookup miss at draw time is observable: a SetShaderTexture or
\* SetShaderMaterial call whose tag does not resolve puts a line on the log.
C24_LookupMissIsLogged ==
    /\ (last.op = "SetShaderTexture" /\ last.tag \notin RegisteredTags)
           => last.log # <<>>
    /\ (last.op = "SetShaderMaterial" /\ last.tag \notin MaterialTags)
           => last.log # <<>>

\* the per-draw setters
SetterCalls ==
    {"SetTransformations", "SetShaderColor", "SetShaderTexture", "SetTextureUVScale",
     "SetShaderMaterial"}

\* C27: with a NULL shader manager every per-draw setter is a no-op: it
\* writes no uniform and does not go through the NULL pointer (so the process
\* stays alive), whatever the registries hold.
C27_NullShaderSettersAreNoOps ==
    [][ (m_pShaderManager = "NULL" /\ last'.op \in SetterCalls)
            => /\ ~fault'
               /\ last'.writes = <<>>
               /\ uniforms' = uniforms ]_vars

\* C28: when CreateGLTexture returns after a successful decode (registered,
\* or refused for its channel count) the image buffer has been freed, the
\* GL_TEXTURE_2D binding of the selected unit is 0 again, and the texture
\* name the call generated is stored in the registry.
C28_CreateReleasesOnEveryPath ==
    [][ (last'.op = "CreateGLTexture" /\ last'.img # 0 /\ ~fault')
            => /\ heapImages' = heapImages
               /\ glBound'[glActiveTexture'] = 0
               /\ \A name \in glNextName .. glNextName' - 1 :
                      \E i \in 0 .. m_loadedTextures' - 1 : m_textureIDs'[i].ID = name ]_vars

----------------------------------------------------------------------------
(* The frame: order of the draws, registries, tags of the scene *)

\* the mesh draw calls among the calls of a handler, in the order made
DrawsOf(events) == SelectSeq(events, LAMBDA e : e.call \in DrawCalls)

\* the calls made with one of the given names, in the order made
CallsOf(events, calls) == SelectSeq(events, LAMBDA e : e.call \in calls)

\* table top; mug body, mug bottom, mug handle; desk item front and box;
\* trash can base and side; scrap wood
SceneDrawOrder ==
    << <<"DrawBoxMesh", "">>,
       <<"DrawCylinderMesh", "side">>, <<"DrawCylinderMesh", "bottom">>,
       <<"DrawTorusMesh", "">>,
       <<"DrawBoxMeshSide", "front">>, <<"DrawBoxMesh", "">>,
       <<"DrawHalfSphereMesh", "">>, <<"DrawCylinderMesh", "side">>,
       <<"DrawBoxMesh", "">> >>

\* C23: every RenderScene call that returns issued the mesh draw calls of
\* the scene in the one fixed order table top, mug, office desk item, trash
\* can, scrap wood, the draws of an object after all draws of the objects
\* before it; the order is that of every frame.
C23_DrawOrderIsFixed ==
    (last.op = "RenderScene" /\ ~fault)
        => LET draws == DrawsOf(last.events)
           IN  [k \in DOMAIN draws |-> <<draws[k].call, draws[k].arg>>] = SceneDrawOrder

\* a frame after the first one has been drawn: the table top is drawn with
\* the UVscale the frame before left
C23_Witness ==
    /\ last.op = "RenderScene"
    /\ ~fault
    /\ Len(DrawsOf(last.events)) = Len(SceneDrawOrder)
    /\ DrawsOf(last.events)[1].drawn["UVscale"] # <<>>

\* the calls that only read the registries
ReadOnlyCalls == {"RenderScene", "FindTextureSlot"}

\* C22: the registries are read-only once the scene is prepared: RenderScene,
\* with every setter and lookup it calls, and FindTextureSlot leave
\* m_objectMaterials, m_textureIDs and m_loadedTextures as they were, and so
\* does every call made inside the frame, frame after frame.
C22_RegistriesReadOnlyAfterPreparation ==
    [][ last'.op \in ReadOnlyCalls
            => /\ m_objectMaterials' = m_objectMaterials
               /\ m_textureIDs' = m_textureIDs
               /\ m_loadedTextures' = m_loadedTextures
               /\ \A k \in DOMAIN last'.events :
                      last'.events[k].loaded = m_loadedTextures ]_vars

\* a frame was drawn over registries that hold some of the scene's textures,
\* not all of them, and both materials
C22_Witness ==
    /\ last.op = "RenderScene"
    /\ ~fault
    /\ m_loadedTextures > 0
    /\ m_loadedTextures < Len(SceneTextures)
    /\ Len(m_objectMaterials) > 0
    /\ Len(DrawsOf(last.events)) = Len(SceneDrawOrder)

\* C25: when every image file of the scene loads, each texture tag that
\* RenderScene passes to SetShaderTexture is in the texture registry and each
\* material tag it passes to SetShaderMaterial is in the material registry,
\* and no mesh is drawn with the sampler of a miss (-1).
C25_SceneTagsResolve ==
    (last.op = "RenderScene" /\ ~fault /\ m_loadedTextures = Len(SceneTextures))
        => /\ \A k \in DOMAIN last.events :
                  /\ last.events[k].call = "SetShaderTexture"
                         => last.events[k].arg \in RegisteredTags
                  /\ last.events[k].call = "SetShaderMaterial"
                         => last.events[k].arg \in MaterialTags
           /\ m_pShaderManager # "NULL"
                  => \A k \in DOMAIN DrawsOf(last.events) :
                         /\ DrawsOf(last.events)[k].drawn["objectTexture"] # <<>>
                         /\ DrawsOf(last.events)[k].drawn["objectTexture"][1] >= 0

\* a frame drawn through a shader after all six files were loaded
C25_Witness ==
    /\ last.op = "RenderScene"
    /\ ~fault
    /\ m_pShaderManager # "NULL"
    /\ m_loadedTextures = Len(SceneTextures)
    /\ Len(CallsOf(last.events, {"SetShaderTexture"})) = Len(SceneDrawOrder)
    /\ Len(CallsOf(last.events, {"SetShaderMaterial"})) = Len(SceneDrawOrder)

\* the uniform state observed at the mesh draw calls, in the order made
DrawnStates(events) ==
    [k \in DOMAIN DrawsOf(events) |-> DrawsOf(events)[k].drawn]

\* C26: RenderScene is frame-deterministic: two frames drawn one after the
\* other over the same registries observe the same uniform state (model,
\* bUseTexture, objectTexture, UVscale, material.*) at their k-th draw call,
\* the first frame after PrepareScene included.
C26_FramesObserveSameUniforms ==
    [][ (/\ last.op = "RenderScene"
         /\ last'.op = "RenderScene"
         /\ ~fault'
         /\ m_objectMaterials' = m_objectMaterials
         /\ m_textureIDs' = m_textureIDs
         /\ m_loadedTextures' = m_loadedTextures)
            => DrawnStates(last'.events) = DrawnStates(last.events) ]_vars

----------------------------------------------------------------------------
(* Frames over any content of the two registries *)

\* bound: the materials in the registry when the first frame is drawn
MaxFrameMats == 1

InitFrame ==
    /\ m_pShaderManager \in {"NULL", "shader"}
    /\ m_textureIDs = [i \in 0 .. MaxTextures - 1 |-> EmptyTextureInfo]
    /\ m_loadedTextures = InitialLoadedTextures
    /\ m_objectMaterials \in SeqsUpTo(MaterialPool, MaxFrameMats)
    /\ m_basicMeshes = {}
    /\ uniforms = [n \in UniformNames |-> <<>>]
    /\ glNextName = 1
    /\ glActiveTexture = 0
    /\ glBound = [u \in 0 .. MaxTextures - 1 |-> 0]
    /\ glImages = {}
    /\ heapImages = 0
    /\ oobWrites = {}
    /\ fault = FALSE
    /\ succeeded = <<>>
    /\ last = NoCall

\* LoadSceneTextures at start-up, each of the six files missing or loaded
FrameLoadSceneTextures ==
    \E imgs \in [DOMAIN SceneTextures -> SceneFileOutcomes], ub \in OverflowOutcomes :
        /\ Running
        /\ last = NoCall
        /\ Commit(LoadSceneTextures(State, imgs, ub))

\* a frame of the render loop
FrameRenderScene ==
    \E uninit \in UninitMaterials, ub \in NullCallOutcomes :
        /\ Running
        /\ Commit(RenderScene(State, uninit, ub))

NextFrame ==
    \/ FrameLoadSceneTextures
    \/ FrameRenderScene

SpecFrame == InitFrame /\ [][NextFrame]_vars

\* the texture tags of the scene that are not registered
UnresolvedTextures == SceneTags \ RegisteredTags

\* the material tags of the scene that are not registered
UnresolvedMaterials == {"wood", "plastic"} \ MaterialTags

\* C21: an unresolved texture or material tag never aborts a frame: with a
\* shader manager, whichever textures failed to register and whatever the
\* material registry holds, RenderScene returns having issued every mesh draw
\* call of the scene, the same calls as when every tag resolves.
C21_UnresolvedTagNeverAbortsFrame ==
    (last.op = "RenderScene" /\ m_pShaderManager # "NULL")
        => /\ ~fault
           /\ LET draws == DrawsOf(last.events)
              IN  [k \in DOMAIN draws |-> <<draws[k].call, draws[k].arg>>] = SceneDrawOrder
           /\ Len(CallsOf(last.events, {"SetShaderTexture"})) = Len(SceneDrawOrder)
           /\ Len(CallsOf(last.events, {"SetShaderMaterial"})) = Len(SceneDrawOrder)

\* a frame drawn with textures missing and a material tag that is not in a
\* registry that holds other materials
C21_Witness ==
    /\ last.op = "RenderScene"
    /\ m_pShaderManager # "NULL"
    /\ UnresolvedTextures # {}
    /\ UnresolvedMaterials # {}
    /\ Len(m_objectMaterials) > 0
    /\ Len(DrawsOf(last.events)) = Len(SceneDrawOrder)

----------------------------------------------------------------------------
(* DefineObjectMaterials of the earlier milestone (src/unnamed/part_000) *)

\* the materials the milestone defines besides wood and plastic
cementMaterial == Material("cement", <<50, 50, 50>>, <<40, 40, 40>>, 50)
goldMaterial == Material("gold", <<30, 30, 20>>, <<60, 50, 40>>, 2200)
tileMaterial == Material("tile", <<30, 20, 10>>, <<40, 50, 60>>, 2500)
glassMaterial == Material("glass", <<30, 30, 30>>, <<60, 60, 60>>, 8500)
clayMaterial == Material("clay", <<40, 40, 50>>, <<10, 10, 10>>, 10)

\* the values assigned after `OBJECT_MATERIAL plankMaterial;`
plankValues == Material("plank", <<60, 30, 10>>, <<20, 10, 5>>, 2500)

\* the statements of the function
Declare(local) == [op |-> "declare", local |-> local]
Assign(local, material) == [op |-> "assign", local |-> local, material |-> material]
PushBack(local) == [op |-> "push_back", local |-> local]

\* declaration, four assignments and push_back of one material
Defined(local, material) == << Declare(local), Assign(local, material), PushBack(local) >>

\* part_000 lines 383-456; the four assignments that follow the declaration of
\* plankMaterial are made to clayMaterial, and plankMaterial is pushed
MilestoneMaterialStatements ==
    Defined("cementMaterial", cementMaterial)
        \o Defined("goldMaterial", goldMaterial)
        \o Defined("woodMaterial", woodMaterial)
        \o Defined("tileMaterial", tileMaterial)
        \o Defined("glassMaterial", glassMaterial)
        \o Defined("clayMaterial", clayMaterial)
        \o << Declare("plankMaterial"),
              Assign("clayMaterial", plankValues),
              PushBack("plankMaterial") >>
        \o Defined("plasticMaterial", plasticMaterial)

MilestoneLocals == {MilestoneMaterialStatements[k].local : k \in DOMAIN MilestoneMaterialStatements}

\* the four member assignments to a local
AssignMaterial(s, material) == [s EXCEPT !.last = Call("assign", material.tag)]

\* m_objectMaterials.push_back(local); ok tells whether the members of the
\* local had been assigned
PushMaterial(s, local) ==
    [s EXCEPT !.last = [Call("push_back", local.value.tag) EXCEPT !.ok = local.assigned],
              !.m_objectMaterials = Append(@, local.value)]

\* the statements from the k-th on; locals maps a declared local to its value;
\* uninit is the content of a local that has been declared and not assigned
RECURSIVE DefineFrom(_, _, _, _, _)
DefineFrom(s, stmts, k, locals, uninit) ==
    IF k > Len(stmts)
    THEN s
    ELSE LET stmt == stmts[k]
         IN  CASE stmt.op = "declare" ->
                      DefineFrom(s, stmts, k + 1,
                                 [locals EXCEPT ![stmt.local] =
                                     [value |-> uninit, assigned |-> FALSE]],
                                 uninit)
               [] stmt.op = "assign" ->
                      DefineFrom(Nest(s, AssignMaterial(s, stmt.material)), stmts, k + 1,
                                 [locals EXCEPT ![stmt.local] =
                                     [value |-> stmt.material, assigned |-> TRUE]],
                                 uninit)
               [] stmt.op = "push_back" ->
                      DefineFrom(Nest(s, PushMaterial(s, locals[stmt.local])), stmts, k + 1,
                                 locals, uninit)

MilestoneDefineObjectMaterials(s, uninit) ==
    DefineFrom([s EXCEPT !.last = Call("DefineObjectMaterials", "")],
               MilestoneMaterialStatements, 1,
               [l \in MilestoneLocals |-> [value |-> uninit, assigned |-> FALSE]],
               uninit)

\* the tags the milestone's scene and its materials use
MilestoneMatTags ==
    {"cement", "gold", "wood", "tile", "glass", "clay", "plank", "plastic"}

\* PrepareScene calls DefineObjectMaterials once
MilestoneCallDefineObjectMaterials ==
    \E uninit \in UninitMaterials :
        /\ Running
        /\ m_objectMaterials = <<>>
        /\ Commit(MilestoneDefineObjectMaterials(State, uninit))

MilestoneCallFindMaterial ==
    \E tag \in MilestoneMatTags, material \in UninitMaterials :
        /\ Running
        /\ LET r == FindMaterial(m_objectMaterials, tag, material)
           IN  Commit([State EXCEPT !.last = [Call("FindMaterial", tag) EXCEPT
                                                 !.given = material,
                                                 !.ok = r.ok, !.out = r.material]])

MilestoneCallSetShaderMaterial ==
    \E tag \in MilestoneMatTags, uninit \in UninitMaterials, ub \in NullCallOutcomes :
        /\ Running
        /\ Commit(SetShaderMaterial(State, tag, uninit, ub))

NextMilestone ==
    \/ MilestoneCallDefineObjectMaterials
    \/ MilestoneCallFindMaterial
    \/ MilestoneCallSetShaderMaterial

SpecMilestone == Init /\ [][NextMilestone]_vars

\* C29: every entry DefineObjectMaterials appends has had its tag, colours
\* and shininess assigned before the push_back, its tag is not empty and
\* differs from the tag of every other entry, and every material whose
\* fields are assigned in the function is found by FindMaterial under the tag
\* assigned to it.
C29_DefinedMaterialsAreComplete ==
    last.op = "DefineObjectMaterials"
        => /\ \A k \in DOMAIN last.events :
                  last.events[k].call = "push_back" => last.events[k].ok
           /\ \A k \in DOMAIN m_objectMaterials : m_objectMaterials[k].tag # ""
           /\ \A j, k \in DOMAIN m_objectMaterials :
                  j # k => m_objectMaterials[j].tag # m_objectMaterials[k].tag
           /\ \A k \in DOMAIN last.events :
                  last.events[k].call = "assign"
                      => \A given \in UninitMaterials :
                             FindMaterial(m_objectMaterials, last.events[k].arg, given).material.tag
                                 = last.events[k].arg

====
